---------------------------- MODULE Spec2Model ----------------------------
(***************************************************************************)
(* A model of the stock-portfolio tracker's server actions                 *)
(* (src/src/app/actions.ts, the CSV-backed version, lines 1-373) and of    *)
(* the closed-positions summary (src/src/app/closed-positions/page.tsx).   *)
(*                                                                         *)
(* Numbers.  A JavaScript number is modelled as a pair <<n, d>>: the exact *)
(* rational n/d in lowest terms with d > 0, or one of the three IEEE       *)
(* specials <<1,0>> (Infinity), <<-1,0>> (-Infinity), <<0,0>> (NaN).  The  *)
(* value undefined is the empty tuple.  Rounding of binary floating point  *)
(* is not modelled: arithmetic is exact.                                   *)
(*                                                                         *)
(* Dates.  The forms send calendar dates ("yyyy-MM-dd"); a date string is  *)
(* modelled by its day number (an integer >= 1), and 0 stands for a string *)
(* that new Date() cannot parse.                                           *)
(*                                                                         *)
(* Text.  A CSV cell is a record [text |-> t]; t is the number a decimal   *)
(* text denotes, or <<>> for the empty string.  Ids, names and dates are   *)
(* written and read unchanged and are kept as they are.                    *)
(***************************************************************************)
EXTENDS Integers, Sequences, FiniteSets, TLC

VARIABLES
    now,                        \* Date.now(), in milliseconds
    activeFile,                 \* Data/Active_Stock.csv
    closedFile,                 \* Data/Closed_Positions.csv
    fetchedGoogleSheetCsvData,  \* module-level cache of the fetched CSV text
    parsedGoogleSheetDataCache, \* module-level cache of the parsed rows
    pc,                         \* per request: the await it is suspended at
    form,                       \* per request: the submitted form data
    portfolio,                  \* per request: local `portfolio`
    stockIndex,                 \* per request: local `stockIndex`
    closedPosition,             \* per request: local `closedPosition`
    closedPositions,            \* per request: local `closedPositions`
    result,                     \* per request: the returned state object
    at,                         \* per request: the clock when it read the store
    started,                    \* number of requests accepted so far
    created,                    \* history: per id, the records created with it
    concurrent,                 \* history: per request, the requests it overlapped
    view,                       \* the last list getPortfolioWithDetails returned
    summary                     \* the last summary ClosedPositionsPage computed

vars == <<now, activeFile, closedFile, fetchedGoogleSheetCsvData,
          parsedGoogleSheetDataCache, pc, form, portfolio, stockIndex,
          closedPosition, closedPositions, result, at, started, created,
          concurrent, view, summary>>

-----------------------------------------------------------------------------
(* Bounds of the model.                                                    *)

MaxReq == 2
MaxClock == 2
MaxOps == 3

Req == 1 .. MaxReq

-----------------------------------------------------------------------------
(* JavaScript numbers.                                                     *)

NaN == <<0, 0>>
Infinity == <<1, 0>>
NegInfinity == <<-1, 0>>
undefined == <<>>

Abs(i) == IF i < 0 THEN -i ELSE i

Sign(i) == IF i > 0 THEN 1 ELSE IF i < 0 THEN -1 ELSE 0

RECURSIVE GCD(_, _)
GCD(a, b) == IF b = 0 THEN a ELSE GCD(b, a % b)

\* The rational n/d (d # 0) in lowest terms.
Num(n, d) ==
    LET g == GCD(Abs(n), Abs(d))
        s == Sign(d)
    IN  <<(s * n) \div g, Abs(d) \div g>>

Number(i) == <<i, 1>>

isNaN(x) == x = NaN

IsFinite(x) == x[2] # 0

Neg(x) == <<-x[1], x[2]>>

Add(x, y) ==
    IF isNaN(x) \/ isNaN(y) THEN NaN
    ELSE IF ~IsFinite(x) /\ ~IsFinite(y) THEN (IF x = y THEN x ELSE NaN)
    ELSE IF ~IsFinite(x) THEN x
    ELSE IF ~IsFinite(y) THEN y
    ELSE Num(x[1] * y[2] + y[1] * x[2], x[2] * y[2])

Sub(x, y) == Add(x, Neg(y))

Mul(x, y) ==
    IF isNaN(x) \/ isNaN(y) THEN NaN
    ELSE IF ~IsFinite(x) \/ ~IsFinite(y) THEN <<Sign(x[1]) * Sign(y[1]), 0>>
    ELSE Num(x[1] * y[1], x[2] * y[2])

\* IEEE division: x/0 is +-Infinity, 0/0 and Infinity/Infinity are NaN.
Div(x, y) ==
    IF isNaN(x) \/ isNaN(y) THEN NaN
    ELSE IF ~IsFinite(y) THEN (IF IsFinite(x) THEN Number(0) ELSE NaN)
    ELSE IF ~IsFinite(x) THEN <<Sign(x[1]) * (IF y[1] < 0 THEN -1 ELSE 1), 0>>
    ELSE IF y[1] = 0 THEN <<Sign(x[1]), 0>>
    ELSE Num(x[1] * y[2], x[2] * y[1])

\* x > y; false whenever an operand is NaN.
Gt(x, y) ==
    /\ ~isNaN(x)
    /\ ~isNaN(y)
    /\ IF IsFinite(x) /\ IsFinite(y) THEN x[1] * y[2] > y[1] * x[2]
       ELSE IF ~IsFinite(x) /\ ~IsFinite(y) THEN x[1] > y[1]
       ELSE IF ~IsFinite(x) THEN x[1] > 0
       ELSE y[1] < 0

\* Truthiness of a number or undefined: false for 0, NaN and undefined.
Truthy(x) == x # undefined /\ x # NaN /\ x # Number(0)

\* The JavaScript expression  x || y .
OrElse(x, y) == IF Truthy(x) THEN x ELSE y

\* Truncation toward zero of a finite number, as an integer-valued number.
Trunc(x) == Number(Sign(x[1]) * (Abs(x[1]) \div x[2]))

-----------------------------------------------------------------------------
(* CSV cells: Number.prototype.toString, parseFloat, parseInt.             *)

EmptyText == [text |-> <<>>]

\* x.toString() of a number: "NaN", "Infinity" and decimals are all texts
\* that denote the number itself.
toString(x) == [text |-> x]

\* (x || dflt) written out: the default also for the numbers 0 and NaN.
toStringOrFalsy(x, dflt) == IF Truthy(x) THEN toString(x) ELSE dflt

\* The JavaScript expression  x?.toString() || dflt  (dflt a text): every
\* number prints as a non-empty, hence truthy, string; only undefined
\* yields the default.
toStringOr(x, dflt) == IF x = undefined THEN dflt ELSE toString(x)

\* parseFloat(cell): NaN for the empty string.
parseFloat(c) == IF c.text = <<>> THEN NaN ELSE c.text

\* parseInt(cell, 10): the integer part of a decimal; NaN for the empty
\* string and for "NaN", "Infinity", "-Infinity".  (Numbers of the model stay
\* below 1e21, where toString switches to exponent notation.)
parseInt(c) ==
    IF c.text = <<>> THEN NaN
    ELSE IF ~IsFinite(c.text) THEN NaN
    ELSE Trunc(c.text)

\* A string is truthy unless it is empty.
TruthyText(c) == c.text # <<>>

-----------------------------------------------------------------------------
(* Rows of the two files.                                                  *)

ACTIVE_STOCK_HEADERS == "id,name,buyDate,buyPrice,targetPrice,quantity"

CLOSED_POSITION_HEADERS ==
    "id,name,buyDate,buyPrice,quantity,buyValue,sellDate,sellPrice,sellValue,gain,daysHeld,percentGain,annualizedGainPercent"

\* parseStockPurchase answers null (line 59).
parseStockPurchaseIsNull(row) == Len(row) < 6

parseStockPurchase(row) ==
    [id          |-> row[1],
     name        |-> row[2],
     buyDate     |-> row[3],
     buyPrice    |-> OrElse(parseFloat(row[4]), Number(0)),
     targetPrice |-> IF TruthyText(row[5]) THEN parseFloat(row[5]) ELSE Number(0),
     quantity    |-> OrElse(parseInt(row[6]), Number(0))]

stringifyStockPurchase(stock) ==
    <<stock.id, stock.name, stock.buyDate, toString(stock.buyPrice),
      toStringOr(stock.targetPrice, toString(Number(0))),
      toString(stock.quantity)>>

\* parseClosedPosition answers null (line 75).
parseClosedPositionIsNull(row) == Len(row) < 13

parseClosedPosition(row) ==
    [id        |-> row[1],
     name      |-> row[2],
     buyDate   |-> row[3],
     buyPrice  |-> OrElse(parseFloat(row[4]), Number(0)),
     quantity  |-> OrElse(parseInt(row[5]), Number(0)),
     buyValue  |-> OrElse(parseFloat(row[6]), Number(0)),
     sellDate  |-> row[7],
     sellPrice |-> OrElse(parseFloat(row[8]), Number(0)),
     sellValue |-> OrElse(parseFloat(row[9]), Number(0)),
     gain      |-> OrElse(parseFloat(row[10]), Number(0)),
     daysHeld  |-> OrElse(parseInt(row[11]), Number(0)),
     percentGain |-> OrElse(parseFloat(row[12]), Number(0)),
     annualizedGainPercent |->
         IF TruthyText(row[13]) THEN parseFloat(row[13]) ELSE undefined]

stringifyClosedPosition(pos) ==
    <<pos.id, pos.name, pos.buyDate, toString(pos.buyPrice),
      toString(pos.quantity), toString(pos.buyValue), pos.sellDate,
      toString(pos.sellPrice), toString(pos.sellValue), toString(pos.gain),
      toString(pos.daysHeld), toString(pos.percentGain),
      toStringOr(pos.annualizedGainPercent, EmptyText)>>

-----------------------------------------------------------------------------
(* Files.  A file is [exists, header, rows]: whether it is there, its      *)
(* first line, and its further lines split at the commas.                  *)

MissingFile == [exists |-> FALSE, header |-> "", rows |-> <<>>]

HeaderOnly(headers) == [exists |-> TRUE, header |-> headers, rows |-> <<>>]

\* readCsvFile that parses the lines after the first whatever the first is.
readCsvFileLinesAnyHeader(file, headers) == file.rows

\* readCsvFile, lines 33-45: the data lines handed to the parser (none when
\* the file is missing, its first line is not the header, or it has no
\* further line).
readCsvFileLines(file, headers) ==
    IF ~file.exists \/ file.header # headers THEN <<>> ELSE file.rows

\* readCsvFile that writes the header line on every read.
readCsvFileLeavesHeader(file, headers) == HeaderOnly(headers)

\* readCsvFile: the file as it leaves it (the header line is written when
\* the file is missing or its first line is not the header).
readCsvFileLeaves(file, headers) ==
    IF ~file.exists \/ file.header # headers THEN HeaderOnly(headers)
    ELSE file

\* writeCsvFile: the file holding the header and the stringified items.
writeCsvFile(lines, headers) ==
    [exists |-> TRUE, header |-> headers, rows |-> lines]

\* readCsvFile(ACTIVE_STOCK_CSV_PATH, ACTIVE_STOCK_HEADERS, parseStockPurchase)
readActive(file) ==
    LET rows == SelectSeq(readCsvFileLines(file, ACTIVE_STOCK_HEADERS),
                          LAMBDA row : ~parseStockPurchaseIsNull(row))
    IN  [i \in 1 .. Len(rows) |-> parseStockPurchase(rows[i])]

\* readCsvFile(CLOSED_POSITIONS_CSV_PATH, CLOSED_POSITION_HEADERS, parseClosedPosition)
readClosed(file) ==
    LET rows == SelectSeq(readCsvFileLines(file, CLOSED_POSITION_HEADERS),
                          LAMBDA row : ~parseClosedPositionIsNull(row))
    IN  [i \in 1 .. Len(rows) |-> parseClosedPosition(rows[i])]

\* writeCsvFile of the active file with stringifyStockPurchase.
writeActive(data) ==
    writeCsvFile([i \in 1 .. Len(data) |-> stringifyStockPurchase(data[i])],
                 ACTIVE_STOCK_HEADERS)

\* writeCsvFile of the closed file with stringifyClosedPosition.
writeClosed(data) ==
    writeCsvFile([i \in 1 .. Len(data) |-> stringifyClosedPosition(data[i])],
                 CLOSED_POSITION_HEADERS)

-----------------------------------------------------------------------------
(* Dates.                                                                  *)

\* Clock ticks per calendar day (the scale of the model's clock).
TicksPerDay == 2

\* new Date().getTime() when Date.now() = t, in days.  The clock reads 0
\* at the start of day 2.
newDateNow(t) == Add(Number(2), Num(t, TicksPerDay))

\* new Date(s).getTime() of a date string, in days: NaN for a string that
\* is no date (0, or the empty string -1).
newDate(s) == IF s <= 0 THEN NaN ELSE Number(s)

\* date-fns differenceInDays(left, right): the number of full days between
\* the two instants, NaN when either is an invalid date.
differenceInDays(left, right) ==
    IF isNaN(left) \/ isNaN(right) THEN NaN
    ELSE Trunc(Sub(left, right))

-----------------------------------------------------------------------------
(* recordSale, lines 300-329: the closed position of a sale.               *)

\* percentGain without the buyValue > 0 guard.
percentGainUnguarded(gain, buyValue, sellValue) ==
    Mul(Div(gain, buyValue), Number(100))

percentGainOf(gain, buyValue, sellValue) ==
    IF Gt(buyValue, Number(0)) THEN Mul(Div(gain, buyValue), Number(100))
    ELSE IF Gt(sellValue, Number(0)) THEN Infinity
    ELSE Number(0)

\* annualizedGainPercent without the same-day branch of lines 310-311.
annualizedGainPercentNoSameDay(daysHeld, buyValue, percentGain) ==
    IF Gt(daysHeld, Number(0)) /\ Gt(buyValue, Number(0))
    THEN Mul(Div(percentGain, daysHeld), Number(365))
    ELSE undefined

annualizedGainPercentOf(daysHeld, buyValue, percentGain) ==
    IF Gt(daysHeld, Number(0)) /\ Gt(buyValue, Number(0))
    THEN Mul(Div(percentGain, daysHeld), Number(365))
    ELSE IF daysHeld = Number(0) /\ Gt(buyValue, Number(0))
            /\ percentGain # Number(0)
    THEN Mul(percentGain, Number(365))
    ELSE undefined

\* daysHeld never below 0.
daysHeldClamped(stockToSell, sellDate) ==
    LET d == differenceInDays(newDate(sellDate), newDate(stockToSell.buyDate))
    IN  IF Gt(Number(0), d) THEN Number(0) ELSE d

\* daysHeld counted up to the clock instead of up to sellDate.
daysHeldToNow(stockToSell, sellDate) ==
    differenceInDays(newDateNow(now), newDate(stockToSell.buyDate))

daysHeldOf(stockToSell, sellDate) ==
    differenceInDays(newDate(sellDate), newDate(stockToSell.buyDate))

\* The closed position built by spreading the purchase ({...stockToSell}),
\* targetPrice and all.
closedPositionSpread(stockToSell, sellDate, sellPrice) ==
    LET buyValue == Mul(stockToSell.buyPrice, stockToSell.quantity)
        sellValue == Mul(sellPrice, stockToSell.quantity)
        gain == Sub(sellValue, buyValue)
        daysHeld == daysHeldOf(stockToSell, sellDate)
        percentGain == percentGainOf(gain, buyValue, sellValue)
    IN  stockToSell @@
        [buyValue  |-> buyValue,
         sellDate  |-> sellDate,
         sellPrice |-> sellPrice,
         sellValue |-> sellValue,
         gain      |-> gain,
         daysHeld  |-> daysHeld,
         percentGain |-> percentGain,
         annualizedGainPercent |->
             annualizedGainPercentOf(daysHeld, buyValue, percentGain)]

closedPositionOf(stockToSell, sellDate, sellPrice) ==
    LET buyValue == Mul(stockToSell.buyPrice, stockToSell.quantity)
        sellValue == Mul(sellPrice, stockToSell.quantity)
        gain == Sub(sellValue, buyValue)
        daysHeld == daysHeldOf(stockToSell, sellDate)
        percentGain == percentGainOf(gain, buyValue, sellValue)
    IN  [id        |-> stockToSell.id,
         name      |-> stockToSell.name,
         buyDate   |-> stockToSell.buyDate,
         buyPrice  |-> stockToSell.buyPrice,
         quantity  |-> stockToSell.quantity,
         buyValue  |-> buyValue,
         sellDate  |-> sellDate,
         sellPrice |-> sellPrice,
         sellValue |-> sellValue,
         gain      |-> gain,
         daysHeld  |-> daysHeld,
         percentGain |-> percentGain,
         annualizedGainPercent |->
             annualizedGainPercentOf(daysHeld, buyValue, percentGain)]

\* findIndex that answers the first record whatever its id.
findIndexFirst(list, stockId) == IF Len(list) = 0 THEN 0 ELSE 1

\* portfolio.findIndex(s => s.id === stockId); 0 stands for -1.
findIndex(list, stockId) ==
    LET hits == {i \in 1 .. Len(list) : list[i].id = stockId}
    IN  IF hits = {} THEN 0
        ELSE CHOOSE i \in hits : \A j \in hits : i <= j

\* splice that empties the list.
spliceAll(list, index) == <<>>

\* list.splice(index, 1)
splice(list, index) ==
    [i \in 1 .. Len(list) - 1 |-> IF i < index THEN list[i] ELSE list[i + 1]]

-----------------------------------------------------------------------------
(* getPortfolioWithDetails, lines 224-277.                                 *)

\* stockPriceMap.get that answers the last named row's price for any name.
stockPriceMapGetAnyName(googleSheetStocks, name) ==
    LET hits == {i \in 1 .. Len(googleSheetStocks) :
                    googleSheetStocks[i].name # ""}
    IN  IF hits = {} THEN undefined
        ELSE LET last == CHOOSE i \in hits : \A j \in hits : j <= i
                 priceStr == googleSheetStocks[last].Current_Price
             IN  IF TruthyText(priceStr) /\ ~isNaN(parseFloat(priceStr))
                 THEN parseFloat(priceStr)
                 ELSE Number(0)

\* stockPriceMap.get(name): the entry set last for the name, or undefined.
\* Rows without a name set nothing; a row whose Current_Price is empty or
\* is no number sets 0.
stockPriceMapGet(googleSheetStocks, name) ==
    LET hits == {i \in 1 .. Len(googleSheetStocks) :
                    /\ googleSheetStocks[i].name # ""
                    /\ googleSheetStocks[i].name = name}
    IN  IF hits = {} THEN undefined
        ELSE LET last == CHOOSE i \in hits : \A j \in hits : j <= i
                 priceStr == googleSheetStocks[last].Current_Price
             IN  IF TruthyText(priceStr) /\ ~isNaN(parseFloat(priceStr))
                 THEN parseFloat(priceStr)
                 ELSE Number(0)

\* remainingGain also when the target is just reached.
remainingGainAtTarget(stock, currentPrice) ==
    IF Truthy(stock.targetPrice) /\ Gt(stock.targetPrice, Number(0))
       /\ ~Gt(currentPrice, stock.targetPrice)
    THEN Mul(Sub(stock.targetPrice, currentPrice), stock.quantity)
    ELSE undefined

remainingGainOf(stock, currentPrice) ==
    IF Truthy(stock.targetPrice) /\ Gt(stock.targetPrice, Number(0))
       /\ Gt(stock.targetPrice, currentPrice)
    THEN Mul(Sub(stock.targetPrice, currentPrice), stock.quantity)
    ELSE undefined

\* gainLossPercent without the buyValue > 0 guard.
gainLossPercentUnguarded(gainLoss, buyValue) ==
    Mul(Div(gainLoss, buyValue), Number(100))

gainLossPercentOf(gainLoss, buyValue) ==
    IF Gt(buyValue, Number(0)) THEN Mul(Div(gainLoss, buyValue), Number(100))
    ELSE Number(0)

\* One element of detailedPortfolio (lines 250-270).
detailedItem(stock, googleSheetStocks, t) ==
    LET currentPrice ==
            OrElse(stockPriceMapGet(googleSheetStocks, stock.name), Number(0))
        currentValue == Mul(currentPrice, stock.quantity)
        buyValue == Mul(stock.buyPrice, stock.quantity)
        gainLoss == Sub(currentValue, buyValue)
    IN  [id          |-> stock.id,
         name        |-> stock.name,
         buyDate     |-> stock.buyDate,
         buyPrice    |-> stock.buyPrice,
         targetPrice |-> stock.targetPrice,
         quantity    |-> stock.quantity,
         currentPrice |-> currentPrice,
         currentValue |-> currentValue,
         gainLoss    |-> gainLoss,
         gainLossPercent |-> gainLossPercentOf(gainLoss, buyValue),
         daysSinceBuy |-> differenceInDays(newDateNow(t), newDate(stock.buyDate)),
         remainingGain |-> remainingGainOf(stock, currentPrice)]

\* totalPortfolioValue after the loop (lines 247, 271).
RECURSIVE totalPortfolioValueOf(_)
totalPortfolioValueOf(items) ==
    IF items = <<>> THEN Number(0)
    ELSE Add(totalPortfolioValueOf(SubSeq(items, 1, Len(items) - 1)),
             items[Len(items)].currentValue)

\* portfolioWeightage guarded by total # 0 instead of total > 0.
portfolioWeightageNonZero(item, totalPortfolioValue) ==
    IF totalPortfolioValue # Number(0)
    THEN Mul(Div(item.currentValue, totalPortfolioValue), Number(100))
    ELSE Number(0)

portfolioWeightageOf(item, totalPortfolioValue) ==
    IF Gt(totalPortfolioValue, Number(0))
    THEN Mul(Div(item.currentValue, totalPortfolioValue), Number(100))
    ELSE Number(0)

\* The returned list with the last purchase first.
detailedPortfolioReversed(list, googleSheetStocks, t) ==
    LET items == [i \in 1 .. Len(list) |->
                     detailedItem(list[Len(list) + 1 - i], googleSheetStocks, t)]
        total == totalPortfolioValueOf(items)
    IN  [i \in 1 .. Len(items) |->
            items[i] @@
            [portfolioWeightage |-> portfolioWeightageOf(items[i], total)]]

\* The list getPortfolioWithDetails returns for the purchases read, the
\* parsed sheet rows and the clock.
detailedPortfolioOf(list, googleSheetStocks, t) ==
    LET items == [i \in 1 .. Len(list) |->
                     detailedItem(list[i], googleSheetStocks, t)]
        total == totalPortfolioValueOf(items)
    IN  [i \in 1 .. Len(items) |->
            items[i] @@
            [portfolioWeightage |-> portfolioWeightageOf(items[i], total)]]

-----------------------------------------------------------------------------
(* The Google Sheet and its two module-level caches.                       *)

\* A fetch that failed (response not ok, or an exception).
FetchFailed == [ok |-> FALSE, empty |-> TRUE, rows |-> <<>>]

\* A fetched CSV text: its header line followed by `rows`, each row given
\* by its name and Current_Price columns; `empty` when the text is "".
CsvText(rows) == [ok |-> TRUE, empty |-> FALSE, rows |-> rows]

EmptyCsvText == [ok |-> TRUE, empty |-> TRUE, rows |-> <<>>]

Null == [isNull |-> TRUE, empty |-> TRUE, rows |-> <<>>]

Cached(empty, rows) == [isNull |-> FALSE, empty |-> empty, rows |-> rows]

\* ensureGoogleSheetCsvDataFetched (lines 101-121) on the response `resp`
\* the fetch would get: the text returned and the two caches afterwards.
ensureGoogleSheetCsvDataFetched(fetched, parsed, resp) ==
    IF ~fetched.isNull
    THEN [text |-> fetched, fetched |-> fetched, parsed |-> parsed]
    ELSE IF ~resp.ok
    THEN [text |-> Cached(TRUE, <<>>), fetched |-> Cached(TRUE, <<>>),
          parsed |-> parsed]
    ELSE [text |-> Cached(resp.empty, resp.rows),
          fetched |-> Cached(resp.empty, resp.rows),
          parsed |-> Null]

\* getParsedGoogleSheetData (lines 123-150): the rows returned and the two
\* caches afterwards.  An array, even an empty one, is truthy.
getParsedGoogleSheetData(fetched, parsed, resp) ==
    IF ~parsed.isNull
    THEN [data |-> parsed.rows, fetched |-> fetched, parsed |-> parsed]
    ELSE LET e == ensureGoogleSheetCsvDataFetched(fetched, parsed, resp)
         IN  IF e.text.empty \/ e.text.rows = <<>>
             THEN [data |-> <<>>, fetched |-> e.fetched,
                   parsed |-> Cached(FALSE, <<>>)]
             ELSE [data |-> e.text.rows, fetched |-> e.fetched,
                   parsed |-> Cached(FALSE, e.text.rows)]

\* A list of valid names that every name is found in.
validStockNamesUnchecked(googleSheetStocks) == STRING

\* validStockNamesFromSheet (lines 188-190)
validStockNamesFromSheet(googleSheetStocks) ==
    {googleSheetStocks[i].name : i \in 1 .. Len(googleSheetStocks)} \ {""}

-----------------------------------------------------------------------------
(* The zod schemas (lines 153-165).  A form field is a cell: the text the  *)
(* browser sent.                                                           *)

\* z.coerce.number(): Number(text); Number("") is 0.
coerceNumber(c) == IF c.text = <<>> THEN Number(0) ELSE c.text

\* .nonnegative() in place of .positive().
nonnegative(x) == ~isNaN(x) /\ ~Gt(Number(0), x)

\* .positive() on a coerced number; NaN is no number for zod.
positive(x) == ~isNaN(x) /\ Gt(x, Number(0))

\* .int()
isInt(x) == IsFinite(x) /\ x[2] = 1

\* z.string().min(1) on a date or id string: -1 stands for "".
nonEmpty(s) == s # -1

\* StockPurchaseSchema without the targetPrice rule.
StockPurchaseSchemaNoTarget(f) ==
    /\ f.name # ""
    /\ nonEmpty(f.buyDate)
    /\ positive(coerceNumber(f.buyPrice))
    /\ isInt(coerceNumber(f.quantity))
    /\ positive(coerceNumber(f.quantity))

StockPurchaseSchema(f) ==
    /\ f.name # ""
    /\ nonEmpty(f.buyDate)
    /\ positive(coerceNumber(f.buyPrice))
    /\ f.hasTargetPrice => positive(coerceNumber(f.targetPrice))
    /\ isInt(coerceNumber(f.quantity))
    /\ positive(coerceNumber(f.quantity))

\* SellStockSchema without the sellPrice rule.
SellStockSchemaNoPrice(f) ==
    /\ nonEmpty(f.stockId)
    /\ nonEmpty(f.sellDate)

SellStockSchema(f) ==
    /\ nonEmpty(f.stockId)
    /\ nonEmpty(f.sellDate)
    /\ positive(coerceNumber(f.sellPrice))

-----------------------------------------------------------------------------
(* Requests.  A server action runs until its next await; other requests    *)
(* run in between.  pc names the await a request is suspended at.  One     *)
(* call of readCsvFile or writeCsvFile is one step: a step ends when the   *)
(* awaited file operation has resolved.                                    *)

NoForm == [kind |-> "none"]

\* A returned state object: the message template, the name interpolated
\* into it, and whether it carries an `errors` field.
Result(message, name, errors) ==
    [message |-> message, name |-> name, errors |-> errors]

NoResult == Result("", "", FALSE)

NoPosition == <<>>

\* No summary computed yet.
NoSummary == <<>>

AddForm(name, buyDate, buyPrice, hasTargetPrice, targetPrice, quantity) ==
    [kind |-> "add", name |-> name, buyDate |-> buyDate,
     buyPrice |-> buyPrice, hasTargetPrice |-> hasTargetPrice,
     targetPrice |-> targetPrice, quantity |-> quantity]

SellForm(stockId, sellDate, sellPrice) ==
    [kind |-> "sell", stockId |-> stockId, sellDate |-> sellDate,
     sellPrice |-> sellPrice]

Text(i) == toString(Number(i))

InFlight(r) == pc[r] \notin {"idle", "done"}

\* Request r is accepted: it overlaps every request in flight.
Accepted(r) ==
    /\ pc[r] = "idle"
    /\ started < MaxOps
    /\ started' = started + 1
    /\ concurrent' = [q \in Req |->
                         IF q = r THEN {x \in Req \ {r} : InFlight(x)}
                         ELSE IF InFlight(q) THEN concurrent[q] \cup {r}
                         ELSE concurrent[q]]

\* The request returns `res`.
Returns(r, res) ==
    /\ result' = [result EXCEPT ![r] = res]
    /\ pc' = [pc EXCEPT ![r] = "done"]

\* addStockPurchase, lines 168-198: validation and the name check.
addStockPurchase(r, f, resp) ==
    /\ Accepted(r)
    /\ form' = [form EXCEPT ![r] = f]
    /\ IF ~StockPurchaseSchema(f)
       THEN /\ Returns(r, Result("Failed to add stock. Please check the form for errors.",
                              "", TRUE))
            /\ UNCHANGED <<fetchedGoogleSheetCsvData, parsedGoogleSheetDataCache>>
       ELSE LET g == getParsedGoogleSheetData(fetchedGoogleSheetCsvData,
                                              parsedGoogleSheetDataCache, resp)
            IN  /\ fetchedGoogleSheetCsvData' = g.fetched
                /\ parsedGoogleSheetDataCache' = g.parsed
                /\ IF Len(g.data) = 0
                   THEN Returns(r, Result("Failed to validate stock name. Data loading issue from Google Sheet.",
                                       "", TRUE))
                   ELSE IF f.name \notin validStockNamesFromSheet(g.data)
                   THEN Returns(r, Result("Invalid stock name. It does not match any stock in the Google Sheet.",
                                       "", TRUE))
                   ELSE /\ pc' = [pc EXCEPT ![r] = "add_read"]
                        /\ UNCHANGED result
    /\ UNCHANGED <<now, activeFile, closedFile, portfolio, stockIndex,
                   closedPosition, closedPositions, at, view, summary, created>>

\* The new record of lines 202-209.
newStock(f, t) ==
    [id          |-> t,
     name        |-> f.name,
     buyDate     |-> f.buyDate,
     buyPrice    |-> coerceNumber(f.buyPrice),
     targetPrice |-> IF f.hasTargetPrice
                     THEN OrElse(coerceNumber(f.targetPrice), Number(0))
                     ELSE Number(0),
     quantity    |-> coerceNumber(f.quantity)]

\* addStockPurchase, lines 200-210: the read of the active file resolves,
\* the new record gets Date.now() as its id and is pushed.
addStockPurchase_read(r) ==
    /\ pc[r] = "add_read"
    /\ portfolio' = [portfolio EXCEPT
                        ![r] = Append(readActive(activeFile), newStock(form[r], now))]
    /\ activeFile' = readCsvFileLeaves(activeFile, ACTIVE_STOCK_HEADERS)
    /\ at' = [at EXCEPT ![r] = now]
    /\ created' = [created EXCEPT ![now] = @ + 1]
    /\ pc' = [pc EXCEPT ![r] = "add_write"]
    /\ UNCHANGED <<now, closedFile, fetchedGoogleSheetCsvData,
                   parsedGoogleSheetDataCache, form, stockIndex, closedPosition,
                   closedPositions, result, started, view, summary, concurrent>>

\* addStockPurchase, lines 211-215: the active file is rewritten.
addStockPurchase_write(r) ==
    /\ pc[r] = "add_write"
    /\ activeFile' = writeActive(portfolio[r])
    /\ Returns(r, Result("Added ${data.name} to portfolio.", form[r].name, FALSE))
    /\ UNCHANGED <<now, closedFile, fetchedGoogleSheetCsvData,
                   parsedGoogleSheetDataCache, form, portfolio, stockIndex,
                   closedPosition, closedPositions, at, started, view, summary, created, concurrent>>

\* recordSale, lines 280-292: validation.
recordSale(r, f) ==
    /\ Accepted(r)
    /\ form' = [form EXCEPT ![r] = f]
    /\ IF ~SellStockSchema(f)
       THEN Returns(r, Result("Failed to record sale. Please check the form details.",
                           "", TRUE))
       ELSE /\ pc' = [pc EXCEPT ![r] = "sale_read"]
            /\ UNCHANGED result
    /\ UNCHANGED <<now, activeFile, closedFile, fetchedGoogleSheetCsvData,
                   parsedGoogleSheetDataCache, portfolio, stockIndex,
                   closedPosition, closedPositions, at, view, summary, created>>

\* recordSale, lines 293-329: the read of the active file resolves, the
\* stock is looked up and the closed position computed.
recordSale_read(r) ==
    /\ pc[r] = "sale_read"
    /\ LET list == readActive(activeFile)
           index == findIndex(list, form[r].stockId)
       IN  /\ portfolio' = [portfolio EXCEPT ![r] = list]
           /\ stockIndex' = [stockIndex EXCEPT ![r] = index]
           /\ IF index = 0
              THEN /\ Returns(r, Result("Stock not found in portfolio.", "", FALSE))
                   /\ UNCHANGED closedPosition
              ELSE /\ closedPosition' =
                          [closedPosition EXCEPT
                              ![r] = closedPositionOf(list[index], form[r].sellDate,
                                                      coerceNumber(form[r].sellPrice))]
                   /\ pc' = [pc EXCEPT ![r] = "sale_readClosed"]
                   /\ UNCHANGED result
    /\ activeFile' = readCsvFileLeaves(activeFile, ACTIVE_STOCK_HEADERS)
    /\ at' = [at EXCEPT ![r] = now]
    /\ UNCHANGED <<now, closedFile, fetchedGoogleSheetCsvData,
                   parsedGoogleSheetDataCache, form, closedPositions, started,
                   view, summary, created, concurrent>>

\* recordSale, lines 331-332: the read of the closed file resolves and the
\* closed position is pushed.
recordSale_readClosed(r) ==
    /\ pc[r] = "sale_readClosed"
    /\ closedPositions' = [closedPositions EXCEPT
                              ![r] = Append(readClosed(closedFile), closedPosition[r])]
    /\ closedFile' = readCsvFileLeaves(closedFile, CLOSED_POSITION_HEADERS)
    /\ pc' = [pc EXCEPT ![r] = "sale_writeClosed"]
    /\ UNCHANGED <<now, activeFile, fetchedGoogleSheetCsvData,
                   parsedGoogleSheetDataCache, form, portfolio, stockIndex,
                   closedPosition, result, at, started, view, summary, created, concurrent>>

\* recordSale, line 333: the closed file is rewritten.
recordSale_writeClosed(r) ==
    /\ pc[r] = "sale_writeClosed"
    /\ closedFile' = writeClosed(closedPositions[r])
    /\ pc' = [pc EXCEPT ![r] = "sale_writeActive"]
    /\ UNCHANGED <<now, activeFile, fetchedGoogleSheetCsvData,
                   parsedGoogleSheetDataCache, form, portfolio, stockIndex,
                   closedPosition, closedPositions, result, at, started, view, summary, created, concurrent>>

\* recordSale, lines 335-340: the stock is spliced out of the list read at
\* line 293 and the active file is rewritten.
recordSale_writeActive(r) ==
    /\ pc[r] = "sale_writeActive"
    /\ activeFile' = writeActive(splice(portfolio[r], stockIndex[r]))
    /\ Returns(r, Result("Sold ${stockToSell.name}. Position moved to closed.",
                    portfolio[r][stockIndex[r]].name, FALSE))
    /\ UNCHANGED <<now, closedFile, fetchedGoogleSheetCsvData,
                   parsedGoogleSheetDataCache, form, portfolio, stockIndex,
                   closedPosition, closedPositions, at, started, view, summary, created, concurrent>>

\* The response reaches the client; the request's locals are gone.
Respond(r) ==
    /\ pc[r] = "done"
    /\ pc' = [pc EXCEPT ![r] = "idle"]
    /\ form' = [form EXCEPT ![r] = NoForm]
    /\ portfolio' = [portfolio EXCEPT ![r] = <<>>]
    /\ stockIndex' = [stockIndex EXCEPT ![r] = 0]
    /\ closedPosition' = [closedPosition EXCEPT ![r] = NoPosition]
    /\ closedPositions' = [closedPositions EXCEPT ![r] = <<>>]
    /\ result' = [result EXCEPT ![r] = NoResult]
    /\ at' = [at EXCEPT ![r] = 0]
    /\ concurrent' = [q \in Req |-> IF q = r THEN {} ELSE concurrent[q] \ {r}]
    /\ UNCHANGED <<now, activeFile, closedFile, fetchedGoogleSheetCsvData,
                   parsedGoogleSheetDataCache, started, view, summary, created>>

\* getPortfolioWithDetails, lines 219-278.
getPortfolioWithDetails(resp) ==
    LET g == getParsedGoogleSheetData(fetchedGoogleSheetCsvData,
                                      parsedGoogleSheetDataCache, resp)
    IN  /\ view' = detailedPortfolioOf(readActive(activeFile), g.data, now)
        /\ activeFile' = readCsvFileLeaves(activeFile, ACTIVE_STOCK_HEADERS)
        /\ fetchedGoogleSheetCsvData' = g.fetched
        /\ parsedGoogleSheetDataCache' = g.parsed
        /\ UNCHANGED <<now, closedFile, pc, form, portfolio, stockIndex,
                       closedPosition, closedPositions, result, at, started,
                       created, concurrent,
                       summary>>

\* Time passes.
Tick ==
    /\ now < MaxClock
    /\ now' = now + 1
    /\ UNCHANGED <<activeFile, closedFile, fetchedGoogleSheetCsvData,
                   parsedGoogleSheetDataCache, pc, form, portfolio, stockIndex,
                   closedPosition, closedPositions, result, at, started, view, summary, created, concurrent>>

-----------------------------------------------------------------------------
(* The position store under concurrent requests: both files missing, the   *)
(* caches unset.                                                            *)

SheetA == CsvText(<<[name |-> "AAA", Current_Price |-> Text(3)]>>)

StoreResponses == {FetchFailed, SheetA}

StoreAddForms ==
    {AddForm("AAA", 2, Text(2), FALSE, EmptyText, Text(1)),
     AddForm("AAA", 3, Text(1), TRUE, Text(3), Text(2)),
     AddForm("AAA", 2, Text(0), FALSE, EmptyText, Text(1)),
     AddForm("ZZZ", 2, Text(2), FALSE, EmptyText, Text(1))}

StoreSellForms ==
    {SellForm(id, d, Text(3)) : id \in 0 .. MaxClock, d \in {1, 3}}
        \cup {SellForm(0, 3, Text(0))}

IdleLocals ==
    /\ pc = [r \in Req |-> "idle"]
    /\ form = [r \in Req |-> NoForm]
    /\ portfolio = [r \in Req |-> <<>>]
    /\ stockIndex = [r \in Req |-> 0]
    /\ closedPosition = [r \in Req |-> NoPosition]
    /\ closedPositions = [r \in Req |-> <<>>]
    /\ result = [r \in Req |-> NoResult]
    /\ at = [r \in Req |-> 0]
    /\ started = 0
    /\ created = [t \in 0 .. MaxClock |-> 0]
    /\ concurrent = [r \in Req |-> {}]

Init ==
    /\ now = 0
    /\ activeFile = MissingFile
    /\ closedFile = MissingFile
    /\ fetchedGoogleSheetCsvData = Null
    /\ parsedGoogleSheetDataCache = Null
    /\ view = <<>>
    /\ summary = NoSummary
    /\ IdleLocals

Handlers ==
    \E r \in Req :
        \/ addStockPurchase_read(r)
        \/ addStockPurchase_write(r)
        \/ recordSale_read(r)
        \/ recordSale_readClosed(r)
        \/ recordSale_writeClosed(r)
        \/ recordSale_writeActive(r)
        \/ Respond(r)

Next ==
    \/ \E r \in Req, f \in StoreAddForms, resp \in StoreResponses :
           addStockPurchase(r, f, resp)
    \/ \E r \in Req, f \in StoreSellForms : recordSale(r, f)
    \/ Handlers
    \/ Tick

Spec == Init /\ [][Next]_vars

-----------------------------------------------------------------------------
(* Sales one at a time over a stored purchase of any shape the active file *)
(* can hold, rows whose numbers parse to 0 and whose date is no date       *)
(* included.                                                               *)

Purchase(id, name, buyDate, buyPrice, targetPrice, quantity) ==
    [id |-> id, name |-> name, buyDate |-> buyDate,
     buyPrice |-> Number(buyPrice), targetPrice |-> Number(targetPrice),
     quantity |-> Number(quantity)]

ActiveFileOf(list) ==
    writeActive(list)

SalePurchases ==
    {Purchase(0, "AAA", 1, 100, 0, 10),
     Purchase(0, "AAA", 1, 0, 0, 10),
     Purchase(0, "AAA", 1, 100, 120, 0),
     Purchase(0, "AAA", 0, 100, 0, 10),
     Purchase(0, "AAA", 80, 2, 3, 1)}

SaleSellForms ==
    {SellForm(0, d, Text(p)) : d \in {0, 1, 74}, p \in {100, 110}}
        \cup {SellForm(1, 74, Text(110)), SellForm(0, -1, Text(110)),
              SellForm(0, 74, toString(NaN)), SellForm(-1, 74, Text(110)),
              SellForm(0, 74, Text(-5)), SellForm(0, 74, EmptyText)}

SaleInit ==
    /\ now = 0
    /\ activeFile \in {ActiveFileOf(<<p>>) : p \in SalePurchases}
    /\ closedFile = MissingFile
    /\ fetchedGoogleSheetCsvData = Null
    /\ parsedGoogleSheetDataCache = Null
    /\ view = <<>>
    /\ summary = NoSummary
    /\ IdleLocals

AllIdle == \A q \in Req : pc[q] = "idle"

SaleNext ==
    \/ \E r \in Req, f \in SaleSellForms : AllIdle /\ recordSale(r, f)
    \/ \E r \in Req : recordSale_read(r)
    \/ \E r \in Req : recordSale_readClosed(r)
    \/ \E r \in Req : recordSale_writeClosed(r)
    \/ \E r \in Req : recordSale_writeActive(r)
    \/ \E r \in Req : Respond(r)
    \/ Tick

SaleSpec == SaleInit /\ [][SaleNext]_vars

-----------------------------------------------------------------------------
(* The portfolio view over stored purchases and sheet contents of any      *)
(* shape: negative, empty and non-numeric prices, names the sheet lacks.   *)

ViewPurchases ==
    {Purchase(0, "AAA", 2, 2, 0, 1),
     Purchase(1, "BBB", 1, 1, 3, 2),
     Purchase(2, "CCC", 3, 0, 1, 3)}

ViewLists ==
    {<<>>} \cup {<<p>> : p \in ViewPurchases}
           \cup {<<p, q>> : p \in ViewPurchases, q \in ViewPurchases}

SheetRow(name, price) == [name |-> name, Current_Price |-> price]

ViewResponses ==
    {FetchFailed,
     CsvText(<<SheetRow("AAA", Text(3)), SheetRow("BBB", Text(1))>>),
     CsvText(<<SheetRow("AAA", Text(-1)), SheetRow("BBB", Text(3))>>),
     CsvText(<<SheetRow("AAA", Text(-4)), SheetRow("BBB", Text(2))>>),
     CsvText(<<SheetRow("AAA", EmptyText), SheetRow("BBB", toString(NaN)),
               SheetRow("", Text(5))>>),
     CsvText(<<SheetRow("BBB", Text(4)), SheetRow("BBB", Text(5))>>),
     CsvText(<<SheetRow("CCC", Text(2)), SheetRow("AAA", Text(3))>>)}

\* The closed file after the sale of one purchase, and the file never
\* written.
ViewClosedFiles ==
    {MissingFile,
     writeClosed(<<closedPositionOf(Purchase(5, "AAA", 1, 2, 0, 1), 3, Number(3))>>)}

ViewInit ==
    /\ now = 0
    /\ activeFile \in {MissingFile} \cup {ActiveFileOf(l) : l \in ViewLists}
    /\ closedFile \in ViewClosedFiles
    /\ fetchedGoogleSheetCsvData = Null
    /\ parsedGoogleSheetDataCache = Null
    /\ view = <<>>
    /\ summary = NoSummary
    /\ IdleLocals

ViewNext ==
    \/ \E resp \in ViewResponses : getPortfolioWithDetails(resp)
    \/ Tick

ViewSpec == ViewInit /\ [][ViewNext]_vars

-----------------------------------------------------------------------------
(* What the store holds, as the next read would return it.                 *)

ActivePurchases == readActive(activeFile)

ClosedPositions == readClosed(closedFile)

IdsOf(list) == {list[i].id : i \in 1 .. Len(list)}

CountId(list, id) == Cardinality({i \in 1 .. Len(list) : list[i].id = id})

Sold(r) == pc[r] = "done" /\ 
    result[r].message = "Sold ${stockToSell.name}. Position moved to closed."

Added(r) == pc[r] = "done" /\ 
    result[r].message = "Added ${data.name} to portfolio."

-----------------------------------------------------------------------------
(* C1: in every state of the position store, the states between two        *)
(* awaited file operations included, no id is both in the Closed Positions *)
(* list and in the Active Purchases list.                                  *)
(* The code rewrites the closed file (line 333) before the active file     *)
(* (line 336): in between, the sold id is in both.                         *)
C1_NoIdActiveAndClosed ==
    IdsOf(ActivePurchases) \cap IdsOf(ClosedPositions) = {}

(* C2: of two recordSale requests for the same stockId that are in flight  *)
(* at the same time, at most one returns the "Sold" message, and at most   *)
(* one closed position with that id is appended.  Stated for an id that    *)
(* only one purchase was ever created with.                                *)
(* Both requests read the active file before either rewrites it.           *)
C2_AtMostOneSaleSucceeds ==
    /\ \A r1 \in Req, r2 \in Req :
          (/\ r1 # r2
           /\ Sold(r1)
           /\ Sold(r2)
           /\ r2 \in concurrent[r1]
           /\ form[r1].stockId = form[r2].stockId
           /\ created[form[r1].stockId] = 1)
          => FALSE
    /\ \A id \in 0 .. MaxClock :
          created[id] = 1 => CountId(ClosedPositions, id) <= 1

(* C3: the ids of the Active Purchases list are pairwise distinct, also    *)
(* when two add requests are handled at the same clock value.              *)
(* The id is Date.now().toString() (line 203): two adds within one         *)
(* millisecond store the same id.                                          *)
C3_ActiveIdsDistinct ==
    \A i \in 1 .. Len(ActivePurchases), j \in 1 .. Len(ActivePurchases) :
        i # j => ActivePurchases[i].id # ActivePurchases[j].id

-----------------------------------------------------------------------------
(* The portfolio view.                                                     *)

RECURSIVE SumOf(_, _)
SumOf(F, n) == IF n = 0 THEN Number(0) ELSE Add(SumOf(F, n - 1), F[n])

ViewTotal == SumOf([i \in 1 .. Len(view) |-> view[i].currentValue], Len(view))

ViewWeightSum ==
    SumOf([i \in 1 .. Len(view) |-> view[i].portfolioWeightage], Len(view))

C5_RemainingGain ==
    \A i \in 1 .. Len(view) :
        LET it == view[i]
        IN  /\ (it.remainingGain # undefined)
                 <=> (Gt(it.targetPrice, Number(0))
                      /\ Gt(it.targetPrice, it.currentPrice))
            /\ it.remainingGain # undefined
                 => it.remainingGain
                      = Mul(Sub(it.targetPrice, it.currentPrice), it.quantity)
            /\ it.remainingGain # Number(0)

\* One item below its target, one without a target, one that reached it.
C5_Witness ==
    /\ Len(view) = 2
    /\ \E i \in 1 .. 2 : view[i].remainingGain = Number(4)
    /\ \E i \in 1 .. 2 :
          view[i].targetPrice = Number(0) /\ view[i].remainingGain = undefined

-----------------------------------------------------------------------------
(* Sales.                                                                  *)

\* Request r has found its stock and computed the closed position.
Settled(r) ==
    \/ pc[r] \in {"sale_readClosed", "sale_writeClosed", "sale_writeActive"}
    \/ Sold(r)

stockToSell(r) == portfolio[r][stockIndex[r]]

(* C6: annualizedGainPercent is present exactly when buyValue > 0 and      *)
(* (daysHeld > 0, or daysHeld = 0 and percentGain # 0); it is percentGain  *)
(* / daysHeld x 365 for daysHeld > 0 and percentGain x 365 for daysHeld =  *)
(* 0; buyPrice 100, quantity 10, sellPrice 110 give 50 for 73 days and     *)
(* 3650 for 0 days.                                                        *)
C6_Annualized ==
    \A r \in Req :
        Settled(r) =>
            LET p == closedPosition[r]
                a == p.annualizedGainPercent
            IN  /\ (a # undefined)
                     <=> (/\ Gt(p.buyValue, Number(0))
                          /\ \/ Gt(p.daysHeld, Number(0))
                             \/ p.daysHeld = Number(0) /\ p.percentGain # Number(0))
                /\ (a # undefined /\ Gt(p.daysHeld, Number(0)))
                     => Mul(a, p.daysHeld) = Mul(p.percentGain, Number(365))
                /\ (a # undefined /\ p.daysHeld = Number(0))
                     => a = Mul(p.percentGain, Number(365))
                /\ (/\ p.buyPrice = Number(100)
                    /\ p.quantity = Number(10)
                    /\ p.sellPrice = Number(110))
                     => /\ p.daysHeld = Number(73) => a = Number(50)
                        /\ p.daysHeld = Number(0) => a = Number(3650)

\* The sale of the example, held 73 days.
C6_Witness ==
    \E r \in Req :
        /\ Sold(r)
        /\ closedPosition[r].daysHeld = Number(73)
        /\ closedPosition[r].percentGain = Number(10)
        /\ closedPosition[r].annualizedGainPercent = Number(50)

(* C7: percentGain is gain / buyValue x 100 when buyValue > 0; when        *)
(* buyValue = 0 it is +Infinity if sellValue > 0 and 0 otherwise; no       *)
(* division by zero is evaluated (the result is never NaN).                *)
C7_PercentGain ==
    \A r \in Req :
        Settled(r) =>
            LET p == closedPosition[r]
            IN  /\ Gt(p.buyValue, Number(0))
                     => Mul(p.percentGain, p.buyValue) = Mul(p.gain, Number(100))
                /\ (p.buyValue = Number(0) /\ Gt(p.sellValue, Number(0)))
                     => p.percentGain = Infinity
                /\ (p.buyValue = Number(0) /\ ~Gt(p.sellValue, Number(0)))
                     => p.percentGain = Number(0)
                /\ ~isNaN(p.percentGain)

\* A sale of a purchase whose buy value is 0 and whose sell value is not.
C7_Witness ==
    \E r \in Req :
        /\ Sold(r)
        /\ closedPosition[r].buyValue = Number(0)
        /\ Gt(closedPosition[r].sellValue, Number(0))
        /\ closedPosition[r].percentGain = Infinity

(* C8: the closed position copies id, name, buyDate, buyPrice and quantity *)
(* from the sold purchase and has no targetPrice; buyValue = buyPrice x    *)
(* quantity, sellValue = sellPrice x quantity, gain = sellValue -          *)
(* buyValue; sellDate and sellPrice are the sale's inputs.                 *)
C8_ClosedPositionFields ==
    \A r \in Req :
        Settled(r) =>
            LET p == closedPosition[r]
                s == stockToSell(r)
            IN  /\ p.id = s.id
                /\ p.name = s.name
                /\ p.buyDate = s.buyDate
                /\ p.buyPrice = s.buyPrice
                /\ p.quantity = s.quantity
                /\ "targetPrice" \notin DOMAIN p
                /\ p.buyValue = Mul(s.buyPrice, s.quantity)
                /\ p.sellValue = Mul(coerceNumber(form[r].sellPrice), s.quantity)
                /\ p.gain = Sub(p.sellValue, p.buyValue)
                /\ p.sellDate = form[r].sellDate
                /\ p.sellPrice = coerceNumber(form[r].sellPrice)

\* A purchase with a target price, sold at a gain.
C8_Witness ==
    \E r \in Req :
        /\ Sold(r)
        /\ stockToSell(r).targetPrice = Number(3)
        /\ closedPosition[r].buyValue = Number(2)
        /\ closedPosition[r].sellValue = Number(110)
        /\ closedPosition[r].gain = Number(108)

(* C9: a sale whose sellDate is earlier than the purchase's buyDate is not *)
(* rejected: recordSale returns "Sold", the position is in the closed list *)
(* and no longer in the active list, and its daysHeld is negative with     *)
(* annualizedGainPercent absent.                                           *)
C9_EarlierSellDate ==
    \A r \in Req :
        (/\ pc[r] = "done"
         /\ form[r].kind = "sell"
         /\ SellStockSchema(form[r])
         /\ stockIndex[r] # 0
         /\ form[r].sellDate >= 1
         /\ form[r].sellDate < stockToSell(r).buyDate)
        => /\ Sold(r)
           /\ Gt(Number(0), closedPosition[r].daysHeld)
           /\ closedPosition[r].annualizedGainPercent = undefined
           /\ form[r].stockId \notin IdsOf(ActivePurchases)
           /\ \E i \in 1 .. Len(ClosedPositions) :
                 /\ ClosedPositions[i].id = form[r].stockId
                 /\ ClosedPositions[i].sellDate = form[r].sellDate
                 /\ Gt(Number(0), ClosedPositions[i].daysHeld)
                 /\ ClosedPositions[i].annualizedGainPercent = undefined

\* A purchase of day 80 sold on day 74.
C9_Witness ==
    \E r \in Req :
        /\ Sold(r)
        /\ stockToSell(r).buyDate = 80
        /\ form[r].sellDate = 74
        /\ closedPosition[r].daysHeld = Number(-6)

(* C10: two recordSale computations over the same ActivePurchase record    *)
(* with the same sellDate and sellPrice yield identical ClosedPosition     *)
(* records, whatever the clock and the store's other contents when each    *)
(* ran.                                                                    *)
C10_SettlementDeterministic ==
    \A r1 \in Req, r2 \in Req :
        (/\ Settled(r1)
         /\ Settled(r2)
         /\ stockToSell(r1) = stockToSell(r2)
         /\ form[r1].sellDate = form[r2].sellDate
         /\ form[r1].sellPrice = form[r2].sellPrice)
        => closedPosition[r1] = closedPosition[r2]

\* Two requests settled the same record with the same inputs at different
\* clock values.
C10_Witness ==
    \E r1 \in Req, r2 \in Req :
        /\ r1 # r2
        /\ Settled(r1)
        /\ Settled(r2)
        /\ stockToSell(r1) = stockToSell(r2)
        /\ form[r1].sellDate = form[r2].sellDate
        /\ form[r1].sellPrice = form[r2].sellPrice
        /\ at[r1] # at[r2]

-----------------------------------------------------------------------------
(* The portfolio view, continued.                                          *)

\* getPortfolioWithDetails has run: the parsed-rows cache is set, and holds
\* the rows every run so far has used.
Viewed == ~parsedGoogleSheetDataCache.isNull

\* The sheet rows the view was computed from.
ViewedRows == parsedGoogleSheetDataCache.rows

(* C11: a purchase whose name the price map has no entry for (the sheet    *)
(* lacks it, or the sheet gave nothing at all) still gets an item, with    *)
(* currentPrice 0, currentValue 0 and gainLoss = -buyValue.                *)
C11_UnknownNamePriceZero ==
    Viewed =>
        /\ Len(view) = Len(ActivePurchases)
        /\ \A i \in 1 .. Len(ActivePurchases) :
              LET stock == ActivePurchases[i]
              IN  stock.name \notin validStockNamesFromSheet(ViewedRows)
                  => /\ view[i].id = stock.id
                     /\ view[i].currentPrice = Number(0)
                     /\ view[i].currentValue = Number(0)
                     /\ view[i].gainLoss
                          = Neg(Mul(stock.buyPrice, stock.quantity))

\* AAA (bought at 2) viewed against a sheet that lists only BBB.
C11_Witness ==
    /\ Viewed
    /\ ViewedRows # <<>>
    /\ \E i \in 1 .. Len(view) :
          /\ view[i].name = "AAA"
          /\ "AAA" \notin validStockNamesFromSheet(ViewedRows)
          /\ view[i].currentPrice = Number(0)
          /\ view[i].gainLoss = Number(-2)

(* C12: an item whose buyValue = buyPrice x quantity is 0 has               *)
(* gainLossPercent exactly 0 (no NaN, no Infinity); for buyValue > 0 it is *)
(* (currentValue - buyValue) / buyValue x 100.                             *)
C12_GainLossPercent ==
    \A i \in 1 .. Len(view) :
        LET it == view[i]
            buyValue == Mul(it.buyPrice, it.quantity)
        IN  /\ buyValue = Number(0) => it.gainLossPercent = Number(0)
            /\ Gt(buyValue, Number(0))
                 => Mul(it.gainLossPercent, buyValue)
                      = Mul(Sub(it.currentValue, buyValue), Number(100))
            /\ IsFinite(it.gainLossPercent)

\* CCC, bought at price 0 and now worth 6, next to AAA, bought at 2 and now
\* worth 3.
C12_Witness ==
    /\ \E i \in 1 .. Len(view) :
          /\ Mul(view[i].buyPrice, view[i].quantity) = Number(0)
          /\ view[i].currentValue = Number(6)
          /\ view[i].gainLossPercent = Number(0)
    /\ \E i \in 1 .. Len(view) :
          /\ Mul(view[i].buyPrice, view[i].quantity) = Number(2)
          /\ view[i].gainLossPercent = Number(50)

(* C13: getPortfolioWithDetails returns exactly one item per stored        *)
(* purchase, in the order the purchases are stored, each carrying the      *)
(* purchase's id, name, buyDate, buyPrice, targetPrice and quantity        *)
(* unchanged.                                                              *)
C13_OneItemPerPurchaseInOrder ==
    Viewed =>
        /\ Len(view) = Len(ActivePurchases)
        /\ \A i \in 1 .. Len(ActivePurchases) :
              /\ view[i].id = ActivePurchases[i].id
              /\ view[i].name = ActivePurchases[i].name
              /\ view[i].buyDate = ActivePurchases[i].buyDate
              /\ view[i].buyPrice = ActivePurchases[i].buyPrice
              /\ view[i].targetPrice = ActivePurchases[i].targetPrice
              /\ view[i].quantity = ActivePurchases[i].quantity

\* Two purchases stored with the higher id first.
C13_Witness ==
    /\ Viewed
    /\ Len(ActivePurchases) = 2
    /\ ActivePurchases[1].id = 1
    /\ ActivePurchases[2].id = 0
    /\ view[1].name = "BBB"
    /\ view[2].name = "AAA"

-----------------------------------------------------------------------------
(* The closed file, written and read back.                                 *)

\* Request r has rewritten the closed file with its closed position last.
WroteClosed(r) == pc[r] = "sale_writeActive" \/ Sold(r)

\* The last line of the closed file, and the record it is read back as.
LastClosedRow == closedFile.rows[Len(closedFile.rows)]

LastClosedPosition == ClosedPositions[Len(ClosedPositions)]

-----------------------------------------------------------------------------
(* What addStockPurchase and recordSale accept.                            *)

\* The calendar day of the clock value t, as a date string's day number.
Today(t) == Trunc(newDateNow(t))

(* C15: every purchase addStockPurchase stores has buyDate <= the date of  *)
(* the request; a request with a later buyDate is rejected.                *)
(* StockPurchaseSchema (line 155) asks only for a non-empty buyDate        *)
(* string and nothing in lines 168-211 compares it with the clock.         *)
C15_BuyDateNotAfterToday ==
    \A r \in Req :
        Added(r) => ~Gt(newDate(form[r].buyDate), Today(at[r]))

NamesListed(rows) == {rows[i].name : i \in 1 .. Len(rows)} \ {""}

\* This step is the validation of an addStockPurchase request by r.
AddValidated(r) ==
    pc[r] = "idle" /\ pc'[r] # "idle" /\ form'[r].kind = "add"

(* C17: addStockPurchase goes on to store a purchase only if its name is   *)
(* in the list of names the sheet supplies at that moment; when the name   *)
(* is not in the list, or the list is empty or could not be loaded, it     *)
(* returns a name error and leaves the Active Purchases list as it is.     *)
C17_NameMustBeListed ==
    [][\A r \in Req :
          AddValidated(r) =>
              LET names == NamesListed(parsedGoogleSheetDataCache'.rows)
              IN  /\ pc'[r] = "add_read" => form'[r].name \in names
                  /\ (StockPurchaseSchema(form'[r]) /\ form'[r].name \notin names)
                       => /\ pc'[r] = "done"
                          /\ result'[r].errors
                          /\ result'[r].message \in
                               {"Failed to validate stock name. Data loading issue from Google Sheet.",
                                "Invalid stock name. It does not match any stock in the Google Sheet."}
                          /\ activeFile' = activeFile]_vars

\* ZZZ was refused against a sheet that lists AAA, with a purchase stored.
C17_Witness ==
    \E r \in Req :
        /\ pc[r] = "done"
        /\ form[r].kind = "add"
        /\ form[r].name = "ZZZ"
        /\ NamesListed(parsedGoogleSheetDataCache.rows) = {"AAA"}
        /\ result[r].message =
             "Invalid stock name. It does not match any stock in the Google Sheet."
        /\ Len(ActivePurchases) = 1

\* This step is the validation of a recordSale request by r.
SaleValidated(r) ==
    pc[r] = "idle" /\ pc'[r] # "idle" /\ form'[r].kind = "sell"

\* A sale form with an empty stockId or sellDate, or with a sellPrice that
\* is no number or is not above 0.
InvalidSale(f) ==
    \/ f.stockId = -1
    \/ f.sellDate = -1
    \/ isNaN(coerceNumber(f.sellPrice))
    \/ ~Gt(coerceNumber(f.sellPrice), Number(0))

(* C18: recordSale goes on to settle only a request whose sellPrice is     *)
(* above 0; a request with a non-positive or non-numeric sellPrice, an     *)
(* empty sellDate or an empty stockId returns validation errors and        *)
(* changes neither the Active Purchases list nor the Closed Positions      *)
(* list.                                                                   *)
C18_InvalidSaleRejected ==
    [][\A r \in Req :
          SaleValidated(r) =>
              /\ pc'[r] = "sale_read"
                   => Gt(coerceNumber(form'[r].sellPrice), Number(0))
              /\ InvalidSale(form'[r])
                   => /\ pc'[r] = "done"
                      /\ result'[r].errors
                      /\ result'[r].message =
                           "Failed to record sale. Please check the form details."
                      /\ activeFile' = activeFile
                      /\ closedFile' = closedFile]_vars

\* A sale at price -5 of the stored purchase was refused.
C18_Witness ==
    \E r \in Req :
        /\ pc[r] = "done"
        /\ form[r].kind = "sell"
        /\ form[r].sellPrice = Text(-5)
        /\ result[r].errors
        /\ Len(ActivePurchases) = 1
        /\ ActivePurchases[1].id = form[r].stockId
        /\ Len(ClosedPositions) = 0

-----------------------------------------------------------------------------
(* Frame conditions.                                                       *)

\* A step of getPortfolioWithDetails: neither the clock's nor a request's.
Viewing == now' = now /\ pc' = pc

(* C19: computing the portfolio view leaves the position store as it was:  *)
(* the Active Purchases and the Closed Positions are the same records      *)
(* after as before, and no derived field is written (an existing file is   *)
(* untouched, a created one holds the header only).                        *)
C19_ViewReadOnly ==
    [][Viewing =>
          /\ readActive(activeFile') = readActive(activeFile)
          /\ readClosed(closedFile') = readClosed(closedFile)
          /\ closedFile' = closedFile
          /\ activeFile.exists => activeFile' = activeFile
          /\ ~activeFile.exists => activeFile' = HeaderOnly(ACTIVE_STOCK_HEADERS)
          /\ \A i \in 1 .. Len(activeFile'.rows) : Len(activeFile'.rows[i]) = 6]_vars

\* Two purchases viewed at a price from the sheet, one position closed.
C19_Witness ==
    /\ Viewed
    /\ Len(view) = 2
    /\ Len(ActivePurchases) = 2
    /\ Len(ClosedPositions) = 1
    /\ view[1].currentPrice = Number(3)
    /\ view[1].portfolioWeightage = Number(60)
    /\ Len(activeFile.rows[1]) = 6

\* The id whose sale rewrites the active file in this step; -1 when the
\* step is no such rewrite.
SoldInStep ==
    IF \E r \in Req : pc[r] = "sale_writeActive" /\ pc'[r] = "done"
    THEN form[CHOOSE r \in Req :
                  pc[r] = "sale_writeActive" /\ pc'[r] = "done"].stockId
    ELSE -1

\* The records of list whose id is not X, in their order.
Others(list, X) == SelectSeq(list, LAMBDA rec : rec.id # X)

IsPrefix(a, b) == Len(a) <= Len(b) /\ a = SubSeq(b, 1, Len(a))

(* C20: records are never mutated in place.  Whatever step is taken, the   *)
(* active purchases other than the one a sale removes in that step are     *)
(* still stored afterwards, with the same field values and in the same     *)
(* relative order, and so are the closed positions that already existed.   *)
(* Both files are rewritten whole from a list read earlier (lines 200/211, *)
(* 293/336, 331/333): what another request stored in between is dropped.   *)
C20_RecordsKept ==
    [][/\ IsPrefix(Others(ActivePurchases, SoldInStep),
                   Others(ActivePurchases', SoldInStep))
       /\ IsPrefix(ClosedPositions, ClosedPositions')]_vars

-----------------------------------------------------------------------------
(* The sheet cache over time: getStockSuggestions (lines 350-373) called   *)
(* again and again while the clock advances.  A call is a request that     *)
(* returns at once; any number of calls follow one another.                *)

\* name.toLowerCase().includes(query.toLowerCase()) for the names and the
\* queries of the model.
includes(name, query) ==
    <<name, query>> \in {<<"AAA", "a">>, <<"AAA", "aa">>, <<"BBB", "b">>}

\* The suggestions of lines 359-372 for the parsed rows.
suggestionsOf(googleSheetStocks, query) ==
    LET hits == SelectSeq(googleSheetStocks,
                          LAMBDA row : /\ row.name # ""
                                       /\ row.symbol # ""
                                       /\ includes(row.name, query))
        top == IF Len(hits) > 10 THEN SubSeq(hits, 1, 10) ELSE hits
    IN  [i \in 1 .. Len(top) |-> [name |-> top[i].name, symbol |-> top[i].symbol]]

\* What a call returns: the list of suggestions.
Suggestions(list) == [message |-> "", name |-> "", errors |-> FALSE,
                      suggestions |-> list]

getStockSuggestions(r, query, resp) ==
    /\ pc[r] = "idle"
    /\ IF query = ""
       THEN /\ Returns(r, Suggestions(<<>>))
            /\ UNCHANGED <<fetchedGoogleSheetCsvData, parsedGoogleSheetDataCache>>
       ELSE LET g == getParsedGoogleSheetData(fetchedGoogleSheetCsvData,
                                              parsedGoogleSheetDataCache, resp)
            IN  /\ fetchedGoogleSheetCsvData' = g.fetched
                /\ parsedGoogleSheetDataCache' = g.parsed
                /\ Returns(r, Suggestions(suggestionsOf(g.data, query)))
    /\ form' = [form EXCEPT ![r] = [kind |-> "suggest", query |-> query]]
    /\ UNCHANGED <<now, activeFile, closedFile, portfolio, stockIndex,
                   closedPosition, closedPositions, at, started, created,
                   concurrent, view, summary>>

SuggestRow(name, price, symbol) ==
    [name |-> name, Current_Price |-> price, symbol |-> symbol]

SheetResponses ==
    {FetchFailed,
     EmptyCsvText,
     CsvText(<<SuggestRow("AAA", Text(3), "A"), SuggestRow("BBB", Text(1), "B")>>),
     CsvText(<<SuggestRow("AAA", Text(2), ""), SuggestRow("BBB", Text(4), "B")>>)}

SheetQueries == {"", "a", "b"}

SheetCall ==
    \E r \in Req, q \in SheetQueries, resp \in SheetResponses :
        getStockSuggestions(r, q, resp)

SheetRespond == \E r \in Req : Respond(r)

SheetNext ==
    \/ SheetCall
    \/ SheetRespond
    \/ Tick

\* Calls keep coming and every call is answered.
SheetSpec ==
    /\ Init
    /\ [][SheetNext]_vars
    /\ WF_vars(SheetCall)
    /\ WF_vars(SheetRespond)
    /\ WF_vars(Tick)

(* C21: the cached sheet data is refreshed over time: once                 *)
(* ensureGoogleSheetCsvDataFetched has stored a result, the empty result   *)
(* of a failed fetch included, some later call fetches from the source     *)
(* again.  A call fetches only when fetchedGoogleSheetCsvData is null      *)
(* (lines 102-104), so a later fetch needs the variable to be null again.  *)
(* No statement of lines 1-373 sets it back to null.                       *)
C21_EventuallyFetchedAgain ==
    [](~fetchedGoogleSheetCsvData.isNull => <>fetchedGoogleSheetCsvData.isNull)

-----------------------------------------------------------------------------
(* The closed-positions page: getClosedPositions (actions.ts, lines        *)
(* 343-348) and the summary ClosedPositionsPage computes from its result   *)
(* (closed-positions/page.tsx, lines 18-49).                               *)

\* x >= y on numbers: false when either is NaN.
Ge(x, y) == ~isNaN(x) /\ ~isNaN(y) /\ ~Gt(y, x)

\* The comparator of line 346, new Date(b.sellDate).getTime() -
\* new Date(a.sellDate).getTime(), as Array.prototype.sort takes it: its
\* sign, with 0 for NaN.
compareBySellDate(a, b) ==
    LET v == Sub(newDate(b.sellDate), newDate(a.sellDate))
    IN  IF isNaN(v) THEN 0 ELSE Sign(v[1])

\* The orderings of 1 .. n.
Orders(n) ==
    {f \in [1 .. n -> 1 .. n] : \A i, j \in 1 .. n : i # j => f[i] # f[j]}

\* Whether the comparator is a consistent comparison function for the
\* elements of list: comparing equal is transitive (the differences of
\* valid dates are consistent as they are).
consistentComparator(list) ==
    \A i, j, k \in 1 .. Len(list) :
        /\ compareBySellDate(list[i], list[j]) = 0
        /\ compareBySellDate(list[j], list[k]) = 0
        => compareBySellDate(list[i], list[k]) = 0

\* [...closedPositions].sort(comparator), line 346: the orders the sort can
\* produce.  With a consistent comparator the sort is stable; otherwise the
\* order is implementation-defined, the result still being a permutation.
sortedBySellDate(list) ==
    LET n == Len(list)
        stable == {f \in Orders(n) :
                      \A i, j \in 1 .. n :
                          i < j =>
                              LET c == compareBySellDate(list[f[i]], list[f[j]])
                              IN  c < 0 \/ (c = 0 /\ f[i] < f[j])}
        orders == IF consistentComparator(list) THEN stable
                  ELSE Orders(n)
    IN  {[i \in 1 .. n |-> list[f[i]]] : f \in orders}

\* getClosedPositions, lines 343-348: the lists a call can return.
getClosedPositions(file) == sortedBySellDate(readClosed(file))

\* new Date('2023-01-01'), page.tsx line 36, on the day scale of the clock.
CagrStartDay == 2

cagrStartDate == newDate(CagrStartDay)

\* 365.25, page.tsx line 41.
DaysPerYear == Num(1461, 4)

\* closedPositions.reduce((sum, pos) => sum + pos.sellValue, 0), line 28.
RECURSIVE totalSellValueOf(_)
totalSellValueOf(list) ==
    IF list = <<>> THEN Number(0)
    ELSE Add(totalSellValueOf(SubSeq(list, 1, Len(list) - 1)),
             list[Len(list)].sellValue)

\* closedPositions.reduce((sum, pos) => sum + pos.buyValue, 0), line 29.
RECURSIVE totalBuyValueOf(_)
totalBuyValueOf(list) ==
    IF list = <<>> THEN Number(0)
    ELSE Add(totalBuyValueOf(SubSeq(list, 1, Len(list) - 1)),
             list[Len(list)].buyValue)

\* overallPnlPercent computed also for a cost basis of 0.
overallPnlPercentFromZero(totalProfit, totalBuyValue) ==
    IF Ge(totalBuyValue, Number(0))
    THEN Mul(Div(totalProfit, totalBuyValue), Number(100))
    ELSE undefined

\* overallPnlPercent, lines 32-34.
overallPnlPercentOf(totalProfit, totalBuyValue) ==
    IF Gt(totalBuyValue, Number(0))
    THEN Mul(Div(totalProfit, totalBuyValue), Number(100))
    ELSE undefined

\* The guard of line 40.
cagrGuard(cagrDaysHeld, totalBuyValue) ==
    Gt(cagrDaysHeld, Number(0)) /\ Gt(totalBuyValue, Number(0))

\* Line 45 without its test.
baseRatioUnguarded(baseRatio) == TRUE

\* The guard of line 45.
baseRatioGuard(baseRatio) == Ge(baseRatio, Number(0))

\* The summary computed without the tests of lines 27 and 32.
summaryOfUnguarded(list, t) ==
    LET totalSellValue == totalSellValueOf(list)
        totalBuyValue == totalBuyValueOf(list)
        totalProfit == Sub(totalSellValue, totalBuyValue)
    IN  [closedPositions |-> list,
         totalSellValue |-> totalSellValue,
         totalBuyValue |-> totalBuyValue,
         totalProfit |-> totalProfit,
         overallPnlPercent |-> Mul(Div(totalProfit, totalBuyValue), Number(100)),
         cagrDaysHeld |-> undefined,
         cagrYears |-> undefined,
         baseRatio |-> undefined,
         cagr |-> undefined]

\* ClosedPositionsPage, lines 18-49: the values of its variables when it
\* renders, at clock t.  A variable that was never assigned is undefined.
\* cagr is kept as the pair <<base, exponent>> of the Math.pow call of
\* line 46, standing for (base ^ exponent - 1) * 100.
summaryOf(list, t) ==
    LET some == Len(list) > 0
        totalSellValue == IF some THEN totalSellValueOf(list)
                          ELSE Number(0)
        totalBuyValue == IF some THEN totalBuyValueOf(list)
                         ELSE Number(0)
        totalProfit == IF some THEN Sub(totalSellValue, totalBuyValue)
                       ELSE Number(0)
        cagrDaysHeld == differenceInDays(newDateNow(t), cagrStartDate)
        inner == some /\ cagrGuard(cagrDaysHeld, totalBuyValue)
        cagrYears == Div(cagrDaysHeld, DaysPerYear)
        baseRatio == Div(totalSellValue, totalBuyValue)
    IN  [closedPositions |-> list,
         totalSellValue |-> totalSellValue,
         totalBuyValue |-> totalBuyValue,
         totalProfit |-> totalProfit,
         overallPnlPercent |->
             IF some THEN overallPnlPercentOf(totalProfit, totalBuyValue)
             ELSE undefined,
         cagrDaysHeld |-> IF some THEN cagrDaysHeld ELSE undefined,
         cagrYears |-> IF inner THEN cagrYears ELSE undefined,
         baseRatio |-> IF inner THEN baseRatio ELSE undefined,
         cagr |-> IF inner /\ baseRatioGuard(baseRatio)
                  THEN <<baseRatio, Div(Number(1), cagrYears)>>
                  ELSE undefined]

\* A rendering of the page.
ClosedPositionsPage ==
    /\ \E list \in getClosedPositions(closedFile) :
           summary' = summaryOf(list, now)
    /\ closedFile' = readCsvFileLeaves(closedFile, CLOSED_POSITION_HEADERS)
    /\ UNCHANGED <<now, activeFile, fetchedGoogleSheetCsvData,
                   parsedGoogleSheetDataCache, pc, form, portfolio, stockIndex,
                   closedPosition, closedPositions, result, at, started,
                   created, concurrent, view>>

\* Closed positions as sales leave them: a gain, a loss sold on the day of
\* the purchase, a purchase whose price cell reads as 0, a sale whose date
\* is no date, and an unbounded price.
PagePositions ==
    {closedPositionOf(Purchase(1, "AAA", 1, 100, 0, 10), 3, Number(110)),
     closedPositionOf(Purchase(2, "BBB", 1, 2, 0, 1), 1, Number(1)),
     closedPositionOf(Purchase(3, "AAA", 1, 0, 0, 10), 2, Number(5)),
     closedPositionOf(Purchase(4, "BBB", 1, 4, 0, 5), 0, Number(6)),
     closedPositionOf([Purchase(5, "AAA", 2, 1, 0, 1) EXCEPT !.buyPrice = Infinity],
                      3, Infinity)}

PageLists ==
    {<<>>} \cup {<<p>> : p \in PagePositions}
           \cup {<<p, q>> : p \in PagePositions, q \in PagePositions}
           \cup {<<p, q, r>> : p \in PagePositions, q \in PagePositions,
                               r \in PagePositions}

PageInit ==
    /\ now = 0
    /\ activeFile = MissingFile
    /\ closedFile \in {MissingFile} \cup {writeClosed(l) : l \in PageLists}
    /\ fetchedGoogleSheetCsvData = Null
    /\ parsedGoogleSheetDataCache = Null
    /\ view = <<>>
    /\ summary = NoSummary
    /\ IdleLocals

PageNext ==
    \/ ClosedPositionsPage
    \/ Tick

PageSpec == PageInit /\ [][PageNext]_vars

\* The summary was computed, from the list as the store holds it.
Summarised == summary # NoSummary

(* C22: the summary over an empty list of closed positions has             *)
(* totalBuyValue = 0, totalSellValue = 0, totalProfit = 0, and both        *)
(* overallPnlPercent and cagr absent.                                      *)
C22_EmptySummary ==
    Summarised /\ summary.closedPositions = <<>>
        => /\ summary.totalBuyValue = Number(0)
           /\ summary.totalSellValue = Number(0)
           /\ summary.totalProfit = Number(0)
           /\ summary.overallPnlPercent = undefined
           /\ summary.cagr = undefined

\* The page rendered over the empty store after the reference date.
C22_Witness ==
    /\ Summarised
    /\ ClosedPositions = <<>>
    /\ summary.closedPositions = <<>>
    /\ Gt(newDateNow(now), cagrStartDate)
    /\ summary.totalProfit = Number(0)

\* The list the summary was computed from.
Summed == summary.closedPositions

(* C23: for every list of closed positions, totalBuyValue and              *)
(* totalSellValue are the sums of the positions' buyValue and sellValue,   *)
(* totalProfit = totalSellValue - totalBuyValue, and overallPnlPercent is  *)
(* present exactly when totalBuyValue > 0, and then equals                 *)
(* totalProfit / totalBuyValue * 100.                                      *)
C23_TotalsAndPnl ==
    Summarised =>
        /\ summary.totalBuyValue
               = SumOf([i \in 1 .. Len(Summed) |-> Summed[i].buyValue], Len(Summed))
        /\ summary.totalSellValue
               = SumOf([i \in 1 .. Len(Summed) |-> Summed[i].sellValue], Len(Summed))
        /\ summary.totalProfit
               = Sub(summary.totalSellValue, summary.totalBuyValue)
        /\ summary.overallPnlPercent # undefined
               <=> Gt(summary.totalBuyValue, Number(0))
        /\ summary.overallPnlPercent # undefined
               => /\ summary.overallPnlPercent
                         = Mul(Div(summary.totalProfit, summary.totalBuyValue),
                               Number(100))
                  /\ IsFinite(summary.totalBuyValue) /\ IsFinite(summary.totalProfit)
                         => Mul(summary.overallPnlPercent, summary.totalBuyValue)
                                = Mul(summary.totalProfit, Number(100))

\* Two positions bought for 1000 and 2 and sold for 1100 and 1: a profit of
\* 99 on 1002.
C23_Witness ==
    /\ Summarised
    /\ Len(Summed) = 2
    /\ summary.totalBuyValue = Number(1002)
    /\ summary.totalSellValue = Number(1101)
    /\ summary.totalProfit = Number(99)
    /\ summary.overallPnlPercent = Num(9900, 1002)

\* The days from the reference start date to the clock of the step.
ElapsedDays == differenceInDays(newDateNow(now), cagrStartDate)

\* cagr of the summary a step computes is present exactly when
\* totalBuyValue > 0, the elapsed days are > 0 and
\* totalSellValue / totalBuyValue >= 0.
CagrPresence ==
    summary'.cagr # undefined
        <=> /\ Gt(summary'.totalBuyValue, Number(0))
            /\ Gt(ElapsedDays, Number(0))
            /\ Ge(Div(summary'.totalSellValue, summary'.totalBuyValue), Number(0))

(* C24: cagr is present exactly when totalBuyValue > 0, the elapsed days   *)
(* from the reference start date to now are > 0 and                        *)
(* totalSellValue / totalBuyValue >= 0.  With no positions, a zero cost    *)
(* basis or a current date not after the reference date it is absent and   *)
(* neither the power of line 46 nor a division of lines 41, 44 and 46 is   *)
(* evaluated.  When only the test of the ratio fails it is absent and no   *)
(* power is evaluated, the divisions of lines 41 and 44 having been made.  *)
C24_Cagr ==
    [][summary' # summary =>
           /\ CagrPresence
           /\ (summary'.cagrYears # undefined \/ summary'.baseRatio # undefined)
                  <=> /\ Gt(summary'.totalBuyValue, Number(0))
                      /\ Gt(ElapsedDays, Number(0))
           /\ summary'.cagrYears # undefined
                  => summary'.cagrYears = Div(ElapsedDays, DaysPerYear)
           /\ summary'.baseRatio # undefined
                  => summary'.baseRatio
                         = Div(summary'.totalSellValue, summary'.totalBuyValue)
           /\ summary'.cagr # undefined
                  => summary'.cagr = <<summary'.baseRatio,
                                       Div(Number(1), summary'.cagrYears)>>]_vars

\* A position bought for 1000 and sold for 1100, summarised one day after
\* the reference date: the power of 11/10 to 1461/4.
C24_Witness ==
    /\ Summarised
    /\ Len(Summed) = 1
    /\ summary.totalBuyValue = Number(1000)
    /\ summary.cagrDaysHeld = Number(1)
    /\ summary.cagr = <<Num(11, 10), Num(1461, 4)>>

\* C24 as stated: whenever cagr is absent, no power and no division was
\* evaluated.  An unbounded cost basis and proceeds (a price of 1e999 passes
\* the schema) give the ratio NaN at line 44, after the division of line 41.
C24_CagrAsStated ==
    [][summary' # summary =>
           /\ CagrPresence
           /\ summary'.cagr = undefined
                  => /\ summary'.cagrYears = undefined
                     /\ summary'.baseRatio = undefined]_vars

(* C30: getClosedPositions returns a permutation of the stored closed     *)
(* positions (the same records, none added, dropped or altered), ordered   *)
(* by sellDate from latest to earliest, and leaves the stored order as it  *)
(* is.  The order is stated over the records whose sellDate is a date.     *)
(* recordSale stores any non-empty sellDate string (line 162); for one     *)
(* that is no date the comparator of line 346 answers NaN, it is no        *)
(* consistent comparison function, and the records around it keep an order *)
(* the sort does not promise: an earlier sale can come before a later one. *)
C30_LatestFirst ==
    [][summary' # summary =>
           /\ \E f \in Orders(Len(ClosedPositions)) :
                  summary'.closedPositions
                      = [i \in 1 .. Len(ClosedPositions) |-> ClosedPositions[f[i]]]
           /\ \A i, j \in 1 .. Len(summary'.closedPositions) :
                  LET a == newDate(summary'.closedPositions[i].sellDate)
                      b == newDate(summary'.closedPositions[j].sellDate)
                  IN  i < j /\ ~isNaN(a) /\ ~isNaN(b) => Ge(a, b)
           /\ ClosedPositions' = ClosedPositions]_vars

-----------------------------------------------------------------------------
(* The position store with requests one at a time: a request starts when   *)
(* every earlier one was answered.  The add forms carry a targetPrice of   *)
(* every kind: none, positive, 0, negative, the empty string.              *)

SeqAddForms ==
    StoreAddForms
        \cup {AddForm("AAA", 2, Text(2), TRUE, t, Text(1)) :
                  t \in {Text(0), Text(-1), EmptyText}}

SeqNext ==
    \/ \E r \in Req, f \in SeqAddForms, resp \in StoreResponses :
           AllIdle /\ addStockPurchase(r, f, resp)
    \/ \E r \in Req, f \in StoreSellForms : AllIdle /\ recordSale(r, f)
    \/ Handlers
    \/ Tick

SeqSpec == Init /\ [][SeqNext]_vars

C26_AbsentIdNotSold ==
    [][\A r \in Req :
           (/\ pc[r] = "sale_read"
            /\ pc'[r] # "sale_read"
            /\ form[r].stockId \notin IdsOf(ActivePurchases))
               => /\ pc'[r] = "done"
                  /\ result'[r].message = "Stock not found in portfolio."
                  /\ ActivePurchases' = ActivePurchases
                  /\ ClosedPositions' = ClosedPositions
                  /\ CountId(ClosedPositions', form[r].stockId)
                         = CountId(ClosedPositions, form[r].stockId)]_vars

\* The second sale of an id sold before was answered: the id has its one
\* closed position.
C26_Witness ==
    \E r \in Req :
        /\ pc[r] = "done"
        /\ form[r].kind = "sell"
        /\ result[r].message = "Stock not found in portfolio."
        /\ form[r].stockId \notin IdsOf(ActivePurchases)
        /\ CountId(ClosedPositions, form[r].stockId) = 1

(* C27: no acknowledged purchase is lost.  The purchase of a request     *)
(* that addStockPurchase answers with 'Added ... to portfolio.' is in the  *)
(* active list, and whatever step is taken afterwards it stays there until *)
(* a sale removes it, also when requests interleave at their awaits.       *)
(* Every record of the active file was acknowledged when it was written    *)
(* (lines 211-215).  A request that read the file before (lines 200, 293)  *)
(* rewrites it from its own list (lines 211, 336) without the record.      *)
C27_NoAcknowledgedPurchaseLost ==
    [][/\ \A r \in Req :
              (pc[r] = "add_write" /\ pc'[r] = "done")
                  => /\ result'[r].message = "Added ${data.name} to portfolio."
                     /\ \E j \in 1 .. Len(ActivePurchases') :
                            ActivePurchases'[j] = portfolio[r][Len(portfolio[r])]
       /\ \A i \in 1 .. Len(ActivePurchases) :
              ActivePurchases[i].id # SoldInStep
                  => \E j \in 1 .. Len(ActivePurchases') :
                         ActivePurchases'[j] = ActivePurchases[i]]_vars

\* The number of purchases created with an id up to t: run one at a time,
\* the adds that succeeded or are about to write.
RECURSIVE CreatedUpTo(_)
CreatedUpTo(t) == IF t < 0 THEN 0 ELSE created[t] + CreatedUpTo(t - 1)

-----------------------------------------------------------------------------
(* readCsvFile (lines 30-51) over an active file of any content: missing,  *)
(* empty, under another first line, the header alone, the header and       *)
(* stored purchases, and the header and lines of fewer cells among the     *)
(* purchases (a buyDate with a line break in it is written as two such     *)
(* lines, line 72).                                                        *)

EmptyFile == [exists |-> TRUE, header |-> "", rows |-> <<>>]

ReadFiles ==
    {MissingFile,
     EmptyFile,
     [ActiveFileOf(<<Purchase(0, "AAA", 2, 2, 0, 1)>>)
          EXCEPT !.header = "id,name,buyDate,buyPrice,quantity"],
     HeaderOnly(ACTIVE_STOCK_HEADERS),
     ActiveFileOf(<<Purchase(0, "AAA", 2, 2, 0, 1)>>),
     ActiveFileOf(<<Purchase(0, "AAA", 2, 2, 0, 1), Purchase(1, "BBB", 1, 1, 3, 2)>>),
     [ActiveFileOf(<<Purchase(0, "AAA", 2, 2, 0, 1), Purchase(1, "BBB", 1, 1, 3, 2),
                     Purchase(2, "CCC", 3, 0, 1, 3)>>)
          EXCEPT !.rows[2] = <<1, "BBB", 1>>],
     [ActiveFileOf(<<Purchase(0, "AAA", 2, 2, 0, 1), Purchase(1, "BBB", 1, 1, 3, 2)>>)
          EXCEPT !.rows[1] = <<0, "AAA", 2, Text(2), Text(0)>>]}

ReadInit ==
    /\ now = 0
    /\ activeFile \in ReadFiles
    /\ closedFile \in ViewClosedFiles
    /\ fetchedGoogleSheetCsvData = Null
    /\ parsedGoogleSheetDataCache = Null
    /\ view = <<>>
    /\ summary = NoSummary
    /\ IdleLocals

ReadSpec == ReadInit /\ [][ViewNext]_vars

\* The file is there and its first line is the expected header.
HeaderExpected == activeFile.exists /\ activeFile.header = ACTIVE_STOCK_HEADERS

\* The view of the step lists the purchases of the lines `lines`, in order.
ViewReturns(lines) ==
    /\ Len(view') = Len(lines)
    /\ \A i \in 1 .. Len(lines) :
          /\ view'[i].id = lines[i][1]
          /\ view'[i].name = lines[i][2]
          /\ view'[i].buyDate = lines[i][3]
          /\ view'[i].buyPrice = OrElse(parseFloat(lines[i][4]), Number(0))
          /\ view'[i].quantity = OrElse(parseInt(lines[i][6]), Number(0))

(* C29: readCsvFile never loses stored records.  When the file holds the   *)
(* expected header followed by data lines it returns the records of the    *)
(* lines that have a cell for every field, in their order, skips the lines *)
(* of fewer cells, and leaves the file unchanged.  The file is reset to    *)
(* the header line only when it is missing, empty or its first line is not *)
(* the expected header, and then an empty list is returned.                *)
C29_ReadKeepsRecords ==
    [][Viewing =>
          /\ HeaderExpected
                 => /\ activeFile' = activeFile
                    /\ ViewReturns(SelectSeq(activeFile.rows,
                                           LAMBDA row : Len(row) >= 6))
          /\ ~HeaderExpected
                 => /\ activeFile' = HeaderOnly(ACTIVE_STOCK_HEADERS)
                    /\ view' = <<>>
          /\ activeFile' # activeFile => ~HeaderExpected]_vars

\* A file of three lines, the second of three cells, was read: the view
\* lists the first and the third.
C29_Witness ==
    /\ Viewed
    /\ HeaderExpected
    /\ Len(activeFile.rows) = 3
    /\ Len(activeFile.rows[2]) = 3
    /\ Len(view) = 2
    /\ view[1].id = 0
    /\ view[2].id = 2

\* C29 as stated: under the expected header every data line is returned.
C29_ReadReturnsEveryRow ==
    [][Viewing =>
          /\ HeaderExpected
                 => /\ activeFile' = activeFile
                    /\ Len(view') = Len(activeFile.rows)
                    /\ ViewReturns(activeFile.rows)
          /\ ~HeaderExpected
                 => /\ activeFile' = HeaderOnly(ACTIVE_STOCK_HEADERS)
                    /\ view' = <<>>
          /\ activeFile' # activeFile => ~HeaderExpected]_vars

=============================================================================
